---- MODULE Spec2Model ----
(***************************************************************************)
(* Model of update_russell2000.py: the ticker Validator, the JSON tree     *)
(* extractor, source strategy A (stockanalysis), source strategy B         *)
(* (finviz, paginated), the fallback loader and the orchestrator main().   *)
(*                                                                         *)
(* A string is a sequence of code points (65 = "A", 97 = "a", 45 = "-",    *)
(* 32 = " ", 10 = newline); Python compares and sorts str by code point.   *)
(* The alphabet is ASCII.  A parsed JSON value is a record [t, v] with     *)
(* t in {"dict", "list", "str", "num"}; a dict's v is its sequence of      *)
(* <<key, value>> items in insertion order.  What requests.get and         *)
(* BeautifulSoup hand to the code (status, the __NEXT_DATA__ payload, the  *)
(* anchor texts, the hrefs, the "N stocks" hint) is the upstream input.    *)
(***************************************************************************)
EXTENDS Integers, Sequences, FiniteSets, TLC

VARIABLES
  scope,         \* which entry point runs: "main", "finviz" or "extract"
  pc,            \* position of the running code
  up,            \* what stockanalysis.com answers in this run
  upB,           \* what finviz.com answers in this run
  file,          \* OUTPUT_FILE on disk: [exists, text]
  tickers,       \* main(): tickers (the extractor's result under "extract")
  b_tickers,     \* fetch_from_finviz: tickers
  page_num,      \* fetch_from_finviz: page_num
  rows_per_page, \* fetch_from_finviz: rows_per_page
  max_page,      \* fetch_from_finviz: max_page
  reqs,          \* history: r values of the finviz requests of this run
  pagelog,       \* history: what each requested finviz page yielded
  calls,         \* history: sources invoked by this run of main(), in order
  resA,          \* history: what fetch_from_stockanalysis returned
  resB,          \* history: what fetch_from_finviz returned
  file0,         \* history: the file when this run of main() started
  wrote,         \* history: this run wrote the file
  prev           \* history: the previous run: [wrote, file, accepted]

vars == <<scope, pc, up, upB, file, tickers, b_tickers, page_num,
          rows_per_page, max_page, reqs, pagelog, calls, resA, resB,
          file0, wrote, prev>>

---------------------------------------------------------------------------
(* Bounds of the model *)

\* deepest nesting of the generated __NEXT_DATA__ payloads (beyond the guard)
MaxNest == 12

---------------------------------------------------------------------------
(* Program constants *)

\* acceptance threshold, `> 500` in the strategies and `< 500` in main()
THRESHOLD == 500
\* depth guard of the extractor
MAX_DEPTH == 10
\* default total of the finviz screener
DEFAULT_TOTAL == 2000
\* page cap of the finviz screener
MAX_PAGES == 110
HYPHEN == 45
NEWLINE == 10
SPACE == 32

\* main(): exclude
exclude ==
  { <<83,80,89>>, <<81,81,81>>, <<73,87,77>>, <<68,73,65>>,
    <<82,83,80>>, <<71,76,68>>, <<83,76,86>>, <<84,76,84>>,
    <<72,89,71>>, <<86,88,88>>, <<73,69,77,71>>, <<69,70,65>>,
    <<65,71,71>>, <<66,78,68>>, <<86,69,65>>, <<86,87,79>>,
    <<73,69,70,65>>, <<73,84,79,84>>, <<73,86,86>>, <<86,79,79>> }

---------------------------------------------------------------------------
(* Python str and list primitives *)

Min2(p, q) == IF p < q THEN p ELSE q
Max2(p, q) == IF p > q THEN p ELSE q

\* str.isspace() of an ASCII character: tab, LF, VT, FF, CR, FS, GS, RS, US
\* and the space
IsSpace(c) == c \in {SPACE, NEWLINE, 9, 11, 12, 13, 28, 29, 30, 31}
IsLowerChar(c) == c \in 97..122
IsUpperChar(c) == c \in 65..90

\* str.strip()
strip(t) ==
  LET keep == {i \in DOMAIN t : ~IsSpace(t[i])}
  IN IF keep = {} THEN <<>>
     ELSE SubSeq(t, CHOOSE i \in keep : \A j \in keep : i <= j,
                    CHOOSE i \in keep : \A j \in keep : i >= j)

\* str.upper()
upper(t) == [i \in DOMAIN t |-> IF IsLowerChar(t[i]) THEN t[i] - 32 ELSE t[i]]

\* str.replace("-", "")
remove_hyphens(t) == SelectSeq(t, LAMBDA c : c # HYPHEN)

\* str.isalpha()
isalpha(t) == t # <<>> /\ \A i \in DOMAIN t : IsLowerChar(t[i]) \/ IsUpperChar(t[i])

\* str.isupper()
isupper(t) ==
  /\ \E i \in DOMAIN t : IsUpperChar(t[i])
  /\ \A i \in DOMAIN t : ~IsLowerChar(t[i])

\* str < str
RECURSIVE Less(_, _)
Less(a, b) ==
  IF b = <<>> THEN FALSE
  ELSE IF a = <<>> THEN TRUE
  ELSE IF a[1] # b[1] THEN a[1] < b[1]
  ELSE Less(Tail(a), Tail(b))

Leq(a, b) == ~Less(b, a)

\* the concatenation of the sequences ss[lo..hi]
RECURSIVE FlattenRange(_, _, _)
FlattenRange(ss, lo, hi) ==
  IF lo > hi THEN <<>>
  ELSE IF lo = hi THEN ss[lo]
  ELSE LET mid == (lo + hi) \div 2
       IN FlattenRange(ss, lo, mid) \o FlattenRange(ss, mid + 1, hi)

\* list.extend over a sequence of lists
Flatten(ss) == FlattenRange(ss, 1, Len(ss))

\* the elements of s, as a set
SetOf(s) == {s[i] : i \in DOMAIN s}

\* list(dict.fromkeys(s)): drop repeats, keep the first occurrences in order
\* (a half at a time: what the left half holds is dropped from the right)
RECURSIVE dedupe(_)
dedupe(s) ==
  IF Len(s) <= 1 THEN s
  ELSE LET h == Len(s) \div 2
           left == dedupe(SubSeq(s, 1, h))
           seen == SetOf(left)
       IN left \o SelectSeq(dedupe(SubSeq(s, h + 1, Len(s))),
                            LAMBDA x : x \notin seen)

\* how many elements the stable merge of the sorted a and b takes from a
\* for its first k elements
RECURSIVE TakeFromA(_, _, _, _, _)
TakeFromA(a, b, k, lo, hi) ==
  IF lo >= hi THEN lo
  ELSE LET mid == (lo + hi) \div 2
       IN IF mid < Len(a) /\ k - mid > 0 /\ Leq(a[mid + 1], b[k - mid])
          THEN TakeFromA(a, b, k, mid + 1, hi)
          ELSE TakeFromA(a, b, k, lo, mid)

Merge(a, b) ==
  [k \in 1..(Len(a) + Len(b)) |->
     LET i == TakeFromA(a, b, k, Max2(0, k - Len(b)), Min2(Len(a), k))
         j == k - i
     IN IF j = 0 THEN a[i]
        ELSE IF i = 0 THEN b[j]
        ELSE IF Leq(a[i], b[j]) THEN b[j] ELSE a[i]] \o <<>>

\* sorted(s) of a list of str
RECURSIVE sorted(_)
sorted(s) ==
  IF Len(s) <= 1 THEN s
  ELSE LET h == Len(s) \div 2
       IN Merge(sorted(SubSeq(s, 1, h)), sorted(SubSeq(s, h + 1, Len(s))))

\* mutant of sorted_set: the distinct elements in the order they came
sorted_set_unsorted(s) == dedupe(s)

\* sorted(set(s)): the distinct elements of s in ascending order
sorted_set(s) ==
  LET o == sorted(s)
      ix == SelectSeq([i \in 1..Len(o) |-> i],
                      LAMBDA i : i = 1 \/ o[i - 1] # o[i])
  IN [k \in 1..Len(ix) |-> o[ix[k]]]

\* "\n".join(lines)
join_lines(lines) ==
  Flatten([i \in 1..Len(lines) |->
             IF i = 1 THEN lines[i] ELSE <<NEWLINE>> \o lines[i]])

\* str.splitlines() of an ASCII text: a line ends at LF, VT, FF, CR, FS, GS
\* or RS, and CR LF ends it once
splitlines(text) ==
  LET n == Len(text)
      crlf(i) == text[i] = 13 /\ i < n /\ text[i + 1] = NEWLINE
      ends == SelectSeq([i \in 1..n |-> i],
                        LAMBDA i : /\ text[i] \in {NEWLINE, 11, 12, 13, 28, 29, 30}
                                   /\ ~crlf(i))
      start(k) == IF k = 1 THEN 1 ELSE ends[k - 1] + 1
      stop(k) == IF ends[k] > 1 /\ crlf(ends[k] - 1)
                 THEN ends[k] - 2 ELSE ends[k] - 1
      closed == [k \in 1..Len(ends) |-> SubSeq(text, start(k), stop(k))]
      rest == SubSeq(text, start(Len(ends) + 1), n)
  IN IF rest = <<>> THEN closed ELSE Append(closed, rest)

---------------------------------------------------------------------------
(* Validator *)

is_valid_ticker(t0) ==
  LET t == strip(t0)
      clean == remove_hyphens(t)
  IN /\ t # <<>>
     /\ 1 <= Len(clean) /\ Len(clean) <= 5
     /\ isalpha(clean)
     /\ isupper(clean)

---------------------------------------------------------------------------
(* Parsed JSON values, as json.loads returns them *)

Dict(items) == [t |-> "dict", v |-> items]
List(elems) == [t |-> "list", v |-> elems]
Str(s) == [t |-> "str", v |-> s]
Num == [t |-> "num", v |-> <<>>]

\* key in obj
has_key(obj, key) == \E i \in DOMAIN obj.v : obj.v[i][1] = key
\* obj[key]
get_key(obj, key) == obj.v[CHOOSE i \in DOMAIN obj.v : obj.v[i][1] = key][2]

\* the candidate keys, in the order the extractor tries them
CandidateKeys == <<"s", "symbol", "ticker", "Symbol", "Ticker">>

---------------------------------------------------------------------------
(* JSON tree extractor *)

RECURSIVE extract_tickers_from_json(_, _)
extract_tickers_from_json(obj, depth) ==
  IF depth > MAX_DEPTH THEN <<>>
  ELSE IF obj.t = "dict" THEN
    Flatten([k \in 1..Len(CandidateKeys) |->
               IF has_key(obj, CandidateKeys[k])
               THEN LET val == get_key(obj, CandidateKeys[k])
                    IN IF val.t = "str" /\ is_valid_ticker(val.v)
                       THEN <<upper(val.v)>>
                       ELSE <<>>
               ELSE <<>>])
    \o Flatten([i \in 1..Len(obj.v) |->
                  extract_tickers_from_json(obj.v[i][2], depth + 1)])
  ELSE IF obj.t = "list" THEN
    Flatten([i \in 1..Len(obj.v) |->
               extract_tickers_from_json(obj.v[i], depth + 1)])
  ELSE <<>>

---------------------------------------------------------------------------
(* What stockanalysis.com answers *)

\* the i-th row of an upstream listing: a three-letter symbol
Pad(i) == <<65 + ((i \div 676) % 26), 65 + ((i \div 26) % 26), 65 + (i % 26)>>

\* n listing rows; each row carries its symbol under "s" (and once more
\* under "symbol" when dup), and a name under "n"
Rows(n, dup, rev) ==
  [i \in 1..n |->
     LET sym == Str(Pad(IF rev THEN n + 1 - i ELSE i))
     IN Dict(IF dup
             THEN << <<"s", sym>>, <<"n", Str(<<120>>)>>, <<"symbol", sym>> >>
             ELSE << <<"s", sym>>, <<"n", Str(<<120>>)>> >>)]

\* k alternating object/array layers around x, the outermost an object
RECURSIVE Wrap(_, _)
Wrap(k, x) ==
  IF k = 0 THEN x
  ELSE IF k % 2 = 1 THEN Dict(<< <<"data", Wrap(k - 1, x)>> >>)
  ELSE List(<<Wrap(k - 1, x)>>)

\* the payload of the __NEXT_DATA__ script block of response r
NextData(r) ==
  Wrap(r.nest,
       List(Rows(r.n, r.dup, r.rev)
            \o [i \in 1..Len(r.extras) |-> Dict(<<r.extras[i]>>)]))

\* the depth at which the extractor meets the row objects of NextData(r)
RowDepth(r) == r.nest + 1

\* the texts of the <a href="/stocks/..."> elements of response r
Anchors(r) ==
  LET once == [i \in 1..r.an |-> Pad(i)] \o r.atexts
  IN IF r.adup THEN once \o once ELSE once

---------------------------------------------------------------------------
(* Source strategy A *)

fetch_from_stockanalysis(r) ==
  IF r.http = "error" \/ r.match = "invalid" THEN <<>>
  ELSE LET jt == IF r.match = "ok"
                 THEN extract_tickers_from_json(NextData(r), 0)
                 ELSE <<>>
       IN IF r.match = "ok" /\ Len(jt) > THRESHOLD THEN jt
          ELSE LET texts == Anchors(r)
                   symbols == [i \in 1..Len(texts) |-> upper(strip(texts[i]))]
                   ht == dedupe(SelectSeq(symbols, is_valid_ticker))
               IN IF Len(ht) > THRESHOLD THEN ht ELSE <<>>

---------------------------------------------------------------------------
(* What finviz.com answers *)

\* the rows the screener serves for offset r: rows r .. r+S-1 of its nrows
\* rows (style "repeat": the first page again, whatever r)
ServedRows(b, r) ==
  LET first == IF b.style = "repeat" THEN 1 ELSE r
      last == Min2(first + b.S - 1, b.nrows)
  IN [i \in 1..Max2(0, last - first + 1) |-> Pad(first + i - 1)]

\* "abc" in a padded table cell
LowerCell(sym) == <<SPACE>> \o [i \in DOMAIN sym |-> sym[i] + 32] \o <<NEWLINE>>

\* "quote.ashx?t=ABC"
QuoteHref(sym) ==
  <<113, 117, 111, 116, 101, 46, 97, 115, 104, 120, 63, 116, 61>> \o sym

\* the parsed page for offset r: the texts of the screener-link-primary
\* anchors and the hrefs of the quote.ashx?t= anchors (style "href": no
\* primary anchors, and each row links "quote.ashx?t=ABC",
\* "quote.ashx?t=ABC&p=d" and "quote.ashx?t=&t=ABC")
Page(b, r) ==
  LET rows == ServedRows(b, r)
      plain == [i \in 1..Len(rows) |-> QuoteHref(rows[i])]
  IN CASE b.style = "href" ->
            [primary |-> <<>>,
             hrefs |-> Flatten([i \in 1..Len(rows) |->
                                  << plain[i],
                                     plain[i] \o <<38, 112, 61, 100>>,
                                     QuoteHref(<<38, 116, 61>> \o rows[i]) >>])]
       [] b.style = "lower" ->
            [primary |-> [i \in 1..Len(rows) |-> LowerCell(rows[i])],
             hrefs |-> plain]
       [] OTHER -> [primary |-> rows, hrefs |-> plain]

\* the "N stocks" hint of page 1, -1 when no element carries one
TotalHint(b) == b.total

---------------------------------------------------------------------------
(* Source strategy B *)

\* re.search(r"t=([A-Z]+)", href): group(1) of the leftmost match, the run
\* of capitals after the first "t=" that a capital follows; <<>> when the
\* href holds no match
upper_run(h) ==
  LET n == Len(h)
      at == {i \in 1..(n - 2) :
               h[i] = 116 /\ h[i + 1] = 61 /\ IsUpperChar(h[i + 2])}
  IN IF at = {} THEN <<>>
     ELSE LET first == 2 + CHOOSE i \in at : \A j \in at : i <= j
              stop == {i \in first..n : ~IsUpperChar(h[i])}
          IN SubSeq(h, first,
                    IF stop = {} THEN n
                    ELSE (CHOOSE i \in stop : \A j \in stop : i <= j) - 1)

parse_finviz_page(page) ==
  LET texts == [i \in 1..Len(page.primary) |-> upper(strip(page.primary[i]))]
      methodA == SelectSeq(texts, is_valid_ticker)
      runs == [i \in 1..Len(page.hrefs) |-> upper_run(page.hrefs[i])]
      methodB == SelectSeq(runs, LAMBDA m : m # <<>> /\ is_valid_ticker(m))
  IN IF methodA # <<>> THEN methodA ELSE dedupe(methodB)

\* total: the hint, or the default
finviz_total(b) == IF TotalHint(b) >= 0 THEN TotalHint(b) ELSE DEFAULT_TOTAL

\* mutant of finviz_max_page: the cap is applied one page too late
finviz_max_page_off_by_one(total, rpp) ==
  Min2(((total - 1) \div rpp) + 2, MAX_PAGES + 1)

finviz_max_page(total, rpp) == Min2(((total - 1) \div rpp) + 1, MAX_PAGES)

\* r_start of page page_num
r_start(pn, rpp) == (pn - 1) * rpp + 1

\* mutant of finviz_result: a result below the threshold is returned as it is
finviz_result_partial(ts) == dedupe(ts)

\* the end of fetch_from_finviz: deduplicate, then accept or discard
finviz_result(ts) ==
  LET d == dedupe(ts)
  IN IF Len(d) > THRESHOLD THEN d ELSE <<>>

---------------------------------------------------------------------------
(* Fallback loader and finalize step *)

NoFile == [exists |-> FALSE, text |-> <<>>]
FileOf(text) == [exists |-> TRUE, text |-> text]

\* Path.read_text(): the text with "\r\n" and "\r" read as "\n"
read_text(f) ==
  LET raw == f.text
      n == Len(raw)
      kept == SelectSeq([i \in 1..n |-> i],
                        LAMBDA i : ~(raw[i] = 13 /\ i < n /\ raw[i + 1] = NEWLINE))
  IN [k \in 1..Len(kept) |-> IF raw[kept[k]] = 13 THEN NEWLINE ELSE raw[kept[k]]]

load_existing(f) ==
  IF f.exists
  THEN LET lines == splitlines(read_text(f))
           stripped == [i \in 1..Len(lines) |-> strip(lines[i])]
       IN SelectSeq(stripped, LAMBDA t : t # <<>> /\ is_valid_ticker(t))
  ELSE <<>>

\* sorted(set(t for t in tickers if is_valid_ticker(t) and t not in exclude))
finalize(ts) ==
  sorted_set(SelectSeq(ts, LAMBDA t : is_valid_ticker(t) /\ t \notin exclude))

\* "\n".join(tickers) + "\n"
file_text(ts) == join_lines(ts) \o <<NEWLINE>>

---------------------------------------------------------------------------
(* The upstream answers and the initial files the model explores *)

A0 == [http |-> "ok", match |-> "none", n |-> 0, dup |-> FALSE, rev |-> FALSE,
       extras |-> <<>>, nest |-> 0, an |-> 0, adup |-> FALSE, atexts |-> <<>>]

\* a response whose payload lists n rows
Listing(n, dup, rev, extras) ==
  [A0 EXCEPT !.match = "ok", !.n = n, !.dup = dup, !.rev = rev,
             !.extras = extras, !.nest = 3]

\* "SPY", "BRK-B", "wxyz", a number
PlainExtras ==
  << <<"Ticker", Str(<<83,80,89>>)>>, <<"s", Str(<<66,82,75,45,66>>)>>,
     <<"ticker", Str(<<119,120,121,122>>)>>, <<"s", Num>> >>
\* " AB"
SpaceExtras == << <<"s", Str(<<32,65,66>>)>> >>
\* "AB\n"
NewlineExtras == << <<"symbol", Str(<<65,66,10>>)>> >>
\* "SPY", as often as the threshold asks
DenyExtras == [i \in 1..(THRESHOLD + 1) |-> <<"s", Str(<<83,80,89>>)>>]

\* anchor texts " brk-b ", "spy", "TOOLONG", "A1"
OddTexts ==
  << <<32,98,114,107,45,98,32>>, <<115,112,121>>,
     <<84,79,79,76,79,78,71>>, <<65,49>> >>

MainA ==
  { [A0 EXCEPT !.http = "error"],
    [A0 EXCEPT !.match = "invalid"],
    A0,
    Listing(THRESHOLD + 1, FALSE, FALSE, <<>>),
    Listing(THRESHOLD + 1, FALSE, TRUE, <<>>),
    Listing(THRESHOLD + 1, TRUE, FALSE, <<>>),
    Listing(THRESHOLD, FALSE, FALSE, <<>>),
    Listing((THRESHOLD \div 2) + 1, TRUE, FALSE, <<>>),
    Listing(THRESHOLD + 1, FALSE, FALSE, PlainExtras),
    Listing(THRESHOLD + 1, FALSE, FALSE, SpaceExtras),
    Listing(THRESHOLD + 1, FALSE, FALSE, NewlineExtras),
    Listing(0, FALSE, FALSE, DenyExtras),
    [Listing(THRESHOLD - 1, FALSE, FALSE, <<>>)
       EXCEPT !.an = THRESHOLD + 1, !.atexts = OddTexts],
    [A0 EXCEPT !.an = (THRESHOLD \div 2) + 1, !.adup = TRUE] }

B0 == [p1 |-> "ok", S |-> 300, nrows |-> 600, total |-> 600, fail |-> {},
       style |-> "primary"]

MainB ==
  { B0,
    [B0 EXCEPT !.fail = {2}],
    [B0 EXCEPT !.p1 = "error"],
    [B0 EXCEPT !.nrows = 0],
    [B0 EXCEPT !.nrows = 300, !.total = -1],
    [B0 EXCEPT !.S = 251, !.nrows = 502, !.total = 502, !.style = "lower"] }

FinvizB ==
  { b \in [p1 : {"ok", "error"}, S : {1, 5, 300}, nrows : {0, 4, 600},
           total : {-1, 0, 10, 600, 5000000},
           fail : {{}, {2}, {3, 4}, {MAX_PAGES}, 2..MAX_PAGES},
           style : {"primary", "lower", "href", "repeat"}] :
      b.p1 = "error" => (b.S = 1 /\ b.nrows = 600 /\ b.fail = {}) }

FinvizFairB ==
  { b \in [p1 : {"ok", "error"}, S : {1, 2}, nrows : {0, 4, 600},
           total : {-1, 10, 5000000},
           fail : {{}, {2}, 2..MAX_PAGES},
           style : {"primary"}] :
      b.p1 = "error" => (b.S = 1 /\ b.nrows = 600 /\ b.fail = {}) }

\* no file; "AAPL\nMSFT\n"; "hello 1\n\n"; " BRK-B \nab\nSPY";
\* "AB\rCD\r\nEF\x0cGH\x1c\n"
InitialFiles ==
  { NoFile,
    FileOf(<<65,65,80,76,10,77,83,70,84,10>>),
    FileOf(<<104,101,108,108,111,32,49,10,10>>),
    FileOf(<<32,66,82,75,45,66,32,10,97,98,10,83,80,89>>),
    FileOf(<<65,66,13,67,68,13,10,69,70,12,71,72,28,10>>) }

\* the string values the extractor is probed with:
\* "ABCD", "wxyz", " AB", "AB\n", "BRK-B", "TOOLONG", "A1", "", "-",
\* "\x1cAB", "AB\x1f"
ProbeValues ==
  { <<65,66,67,68>>, <<119,120,121,122>>, <<32,65,66>>, <<65,66,10>>,
    <<66,82,75,45,66>>, <<84,79,79,76,79,78,71>>, <<65,49>>, <<>>, <<45>>,
    <<28,65,66>>, <<65,66,31>> }

ProbeKeys == {"s", "symbol", "ticker", "Symbol", "Ticker", "name", "S"}

\* {"data": [{"symbol": "ABCD"}, {"ticker": "wxyz"}]}
Example ==
  [A0 EXCEPT !.match = "ok", !.nest = 1,
             !.extras = << <<"symbol", Str(<<65,66,67,68>>)>>,
                           <<"ticker", Str(<<119,120,121,122>>)>> >>]

ExtractInputs ==
  {Example}
  \cup { [A0 EXCEPT !.match = "ok", !.nest = k, !.extras = << <<key, Str(val)>> >>] :
           k \in 0..MaxNest, key \in ProbeKeys, val \in ProbeValues }
  \cup { [A0 EXCEPT !.match = "ok", !.nest = k, !.extras = << <<"s", Num>> >>] :
           k \in 0..MaxNest }

---------------------------------------------------------------------------
(* Initial states *)

NoPrev == [wrote |-> FALSE, file |-> <<>>, accepted |-> <<>>]

InitLocals ==
  /\ tickers = <<>>
  /\ b_tickers = <<>>
  /\ page_num = 0
  /\ rows_per_page = 0
  /\ max_page = 0
  /\ reqs = <<>>
  /\ pagelog = <<>>
  /\ calls = <<>>
  /\ resA = <<>>
  /\ resB = <<>>
  /\ wrote = FALSE
  /\ prev = NoPrev

\* main() is about to start; the file is in any of the initial conditions
Init ==
  /\ scope = "main"
  /\ pc = "A"
  /\ up = A0
  /\ upB = B0
  /\ file \in InitialFiles
  /\ file0 = file
  /\ InitLocals

\* fetch_from_finviz is about to start against one of the screeners
InitFinviz ==
  /\ scope = "finviz"
  /\ pc = "B"
  /\ up = A0
  /\ upB \in FinvizB
  /\ file = NoFile
  /\ file0 = file
  /\ InitLocals

\* fetch_from_finviz is about to start against one of the screeners that
\* serve short pages
InitFinvizFair ==
  /\ scope = "finviz"
  /\ pc = "B"
  /\ up = A0
  /\ upB \in FinvizFairB
  /\ file = NoFile
  /\ file0 = file
  /\ InitLocals

\* _extract_tickers_from_json is about to be applied to a payload
InitExtract ==
  /\ scope = "extract"
  /\ pc = "extract"
  /\ up \in ExtractInputs
  /\ upB = B0
  /\ file = NoFile
  /\ file0 = file
  /\ InitLocals

---------------------------------------------------------------------------
(* main(): source 1 *)

BLocals == <<b_tickers, page_num, rows_per_page, max_page>>
History == <<file0, wrote, prev>>

\* tickers = fetch_from_stockanalysis()
CallStockanalysis ==
  /\ pc = "A"
  /\ \E r \in MainA :
       /\ up' = r
       /\ tickers' = fetch_from_stockanalysis(r)
       /\ resA' = tickers'
  /\ calls' = Append(calls, "A")
  /\ pc' = "B"
  /\ UNCHANGED <<scope, upB, file, BLocals, reqs, pagelog, resB, History>>

\* mutant of needs_finviz: source 2 is tried whatever source 1 returned
needs_finviz_always(ts) == TRUE

\* main(): if len(tickers) < 500, before source 2
needs_finviz(ts) == Len(ts) < THRESHOLD

\* source 1 was accepted: source 2 is not tried
SkipFinviz ==
  /\ pc = "B"
  /\ ~needs_finviz(tickers)
  /\ pc' = "F"
  /\ UNCHANGED <<scope, up, upB, file, tickers, BLocals, reqs, pagelog,
                 calls, resA, resB, History>>

---------------------------------------------------------------------------
(* fetch_from_finviz *)

\* the screener this call meets: the one under test, or any of main()'s
Screeners == IF scope = "finviz" THEN {upB} ELSE MainB

\* fetch_from_finviz returns res to main()
FinvizReturn(res) ==
  /\ tickers' = res
  /\ resB' = tickers'
  /\ pc' = "F"

\* the request for page 1 fails: the outer except returns []
FinvizPage1Error ==
  /\ pc = "B"
  /\ needs_finviz(tickers)
  /\ \E b \in Screeners : upB' = b /\ b.p1 = "error"
  /\ reqs' = Append(reqs, 1)
  /\ pagelog' = Append(pagelog, [page |-> 1, out |-> "error", syms |-> <<>>])
  /\ calls' = Append(calls, "B")
  /\ FinvizReturn(<<>>)
  /\ UNCHANGED <<scope, up, file, BLocals, History, resA>>

\* page 1 yields no ticker: return []
FinvizPage1Empty ==
  /\ pc = "B"
  /\ needs_finviz(tickers)
  /\ \E b \in Screeners :
       /\ upB' = b
       /\ b.p1 = "ok"
       /\ parse_finviz_page(Page(b, 1)) = <<>>
  /\ reqs' = Append(reqs, 1)
  /\ pagelog' = Append(pagelog, [page |-> 1, out |-> "empty", syms |-> <<>>])
  /\ calls' = Append(calls, "B")
  /\ FinvizReturn(<<>>)
  /\ UNCHANGED <<scope, up, file, BLocals, History, resA>>

\* page 1 yields tickers: rows_per_page and max_page are set, the loop starts
FinvizPage1Rows ==
  /\ pc = "B"
  /\ needs_finviz(tickers)
  /\ \E b \in Screeners :
       LET page_tickers == parse_finviz_page(Page(b, 1))
       IN /\ upB' = b
          /\ b.p1 = "ok"
          /\ page_tickers # <<>>
          /\ b_tickers' = page_tickers
          /\ rows_per_page' = Len(page_tickers)
          /\ max_page' = finviz_max_page(finviz_total(b), Len(page_tickers))
          /\ pagelog' = Append(pagelog,
                               [page |-> 1, out |-> "rows", syms |-> page_tickers])
  /\ page_num' = 2
  /\ reqs' = Append(reqs, 1)
  /\ calls' = Append(calls, "B")
  /\ pc' = "B_loop"
  /\ UNCHANGED <<scope, up, file, tickers, History, resA, resB>>

\* mutant of FinvizPageError: the error reaches the outer except, which
\* returns []
FinvizPageError_abort ==
  /\ pc = "B_loop"
  /\ page_num <= max_page
  /\ page_num \in upB.fail
  /\ reqs' = Append(reqs, r_start(page_num, rows_per_page))
  /\ pagelog' = Append(pagelog, [page |-> page_num, out |-> "error", syms |-> <<>>])
  /\ FinvizReturn(<<>>)
  /\ UNCHANGED <<scope, up, upB, file, BLocals, calls, resA, History>>

\* the request for page page_num fails: log, sleep, continue
FinvizPageError ==
  /\ pc = "B_loop"
  /\ page_num <= max_page
  /\ page_num \in upB.fail
  /\ reqs' = Append(reqs, r_start(page_num, rows_per_page))
  /\ pagelog' = Append(pagelog, [page |-> page_num, out |-> "error", syms |-> <<>>])
  /\ page_num' = page_num + 1
  /\ UNCHANGED <<scope, pc, up, upB, file, tickers, b_tickers, rows_per_page,
                 max_page, calls, resA, resB, History>>

\* mutant of FinvizPageEmpty: the empty page is skipped, the loop goes on
FinvizPageEmpty_continue ==
  /\ pc = "B_loop"
  /\ page_num <= max_page
  /\ page_num \notin upB.fail
  /\ parse_finviz_page(Page(upB, r_start(page_num, rows_per_page))) = <<>>
  /\ reqs' = Append(reqs, r_start(page_num, rows_per_page))
  /\ pagelog' = Append(pagelog, [page |-> page_num, out |-> "empty", syms |-> <<>>])
  /\ page_num' = page_num + 1
  /\ UNCHANGED <<scope, pc, up, upB, file, tickers, b_tickers, rows_per_page,
                 max_page, calls, resA, resB, History>>

\* page page_num yields no ticker: break, then deduplicate and return
FinvizPageEmpty ==
  /\ pc = "B_loop"
  /\ page_num <= max_page
  /\ page_num \notin upB.fail
  /\ parse_finviz_page(Page(upB, r_start(page_num, rows_per_page))) = <<>>
  /\ reqs' = Append(reqs, r_start(page_num, rows_per_page))
  /\ pagelog' = Append(pagelog, [page |-> page_num, out |-> "empty", syms |-> <<>>])
  /\ FinvizReturn(finviz_result(b_tickers))
  /\ UNCHANGED <<scope, up, upB, file, BLocals, calls, resA, History>>

\* page page_num yields tickers: extend, sleep, next page
FinvizPageRows ==
  /\ pc = "B_loop"
  /\ page_num <= max_page
  /\ page_num \notin upB.fail
  /\ LET page_tickers ==
           parse_finviz_page(Page(upB, r_start(page_num, rows_per_page)))
     IN /\ page_tickers # <<>>
        /\ b_tickers' = b_tickers \o page_tickers
        /\ pagelog' = Append(pagelog,
                             [page |-> page_num, out |-> "rows", syms |-> page_tickers])
  /\ reqs' = Append(reqs, r_start(page_num, rows_per_page))
  /\ page_num' = page_num + 1
  /\ UNCHANGED <<scope, pc, up, upB, file, tickers, rows_per_page, max_page,
                 calls, resA, resB, History>>

\* range(2, max_page + 1) is exhausted: deduplicate and return
FinvizLoopDone ==
  /\ pc = "B_loop"
  /\ page_num > max_page
  /\ FinvizReturn(finviz_result(b_tickers))
  /\ UNCHANGED <<scope, up, upB, file, BLocals, reqs, pagelog, calls, resA, History>>

---------------------------------------------------------------------------
(* main(): source 3 and the finalize step *)

\* the condition under which main() returns without touching the file
keeps_existing(ts, f) == Len(ts) < THRESHOLD /\ load_existing(f) # <<>>

\* load_existing() is called exactly when len(tickers) < 500
CallsAfterFallback == IF Len(tickers) < THRESHOLD THEN Append(calls, "F") ELSE calls

\* all sources failed and the existing file has tickers: keep it
PreserveExisting ==
  /\ pc = "F"
  /\ keeps_existing(tickers, file)
  /\ calls' = CallsAfterFallback
  /\ pc' = "done"
  /\ UNCHANGED <<scope, up, upB, file, tickers, BLocals, reqs, pagelog,
                 resA, resB, History>>

\* all sources failed and there is nothing to keep
TotalFailure ==
  /\ pc = "F"
  /\ ~keeps_existing(tickers, file)
  /\ tickers = <<>>
  /\ calls' = CallsAfterFallback
  /\ pc' = "done"
  /\ UNCHANGED <<scope, up, upB, file, tickers, BLocals, reqs, pagelog,
                 resA, resB, History>>

\* filter, deduplicate, sort and write the file
FinalizeWrite ==
  /\ pc = "F"
  /\ ~keeps_existing(tickers, file)
  /\ tickers # <<>>
  /\ tickers' = finalize(tickers)
  /\ file' = FileOf(file_text(tickers'))
  /\ wrote' = TRUE
  /\ calls' = CallsAfterFallback
  /\ pc' = "done"
  /\ UNCHANGED <<scope, up, upB, BLocals, reqs, pagelog, resA, resB, file0, prev>>

\* the list the finished run handed to the finalize step
Accepted == IF Len(resA) >= THRESHOLD THEN resA ELSE resB

\* the next monthly run of main() starts
StartRun ==
  /\ scope = "main"
  /\ pc = "done"
  /\ pc' = "A"
  /\ prev' = IF wrote
             THEN [wrote |-> TRUE, file |-> file.text, accepted |-> Accepted]
             ELSE NoPrev
  /\ file0' = file
  /\ wrote' = FALSE
  /\ tickers' = <<>>
  /\ b_tickers' = <<>>
  /\ page_num' = 0
  /\ rows_per_page' = 0
  /\ max_page' = 0
  /\ reqs' = <<>>
  /\ pagelog' = <<>>
  /\ calls' = <<>>
  /\ resA' = <<>>
  /\ resB' = <<>>
  /\ up' = A0
  /\ upB' = B0
  /\ UNCHANGED <<scope, file>>

---------------------------------------------------------------------------
(* The extractor applied to a payload *)

RunExtract ==
  /\ pc = "extract"
  /\ tickers' = extract_tickers_from_json(NextData(up), 0)
  /\ pc' = "extracted"
  /\ UNCHANGED <<scope, up, upB, file, BLocals, reqs, pagelog, calls,
                 resA, resB, History>>

---------------------------------------------------------------------------
(* Specifications *)

NextFinviz ==
  \/ FinvizPage1Error
  \/ FinvizPage1Empty
  \/ FinvizPage1Rows
  \/ FinvizPageError
  \/ FinvizPageEmpty
  \/ FinvizPageRows
  \/ FinvizLoopDone

Next ==
  \/ CallStockanalysis
  \/ SkipFinviz
  \/ FinvizPage1Error
  \/ FinvizPage1Empty
  \/ FinvizPage1Rows
  \/ FinvizPageError
  \/ FinvizPageEmpty
  \/ FinvizPageRows
  \/ FinvizLoopDone
  \/ PreserveExisting
  \/ TotalFailure
  \/ FinalizeWrite
  \/ StartRun

NextExtract == RunExtract

\* main(), run again and again
Spec == Init /\ [][Next]_vars

\* fetch_from_finviz, run once against any of the screeners
SpecFinviz == InitFinviz /\ [][NextFinviz]_vars

\* the same; the function is sequential code and every request has a
\* timeout, so a step that can be taken is taken
FairSpecFinviz == InitFinvizFair /\ [][NextFinviz]_vars /\ WF_vars(NextFinviz)

\* _extract_tickers_from_json, applied once to any of the payloads
SpecExtract == InitExtract /\ [][NextExtract]_vars

TypeOK == pc \in {"A", "B", "B_loop", "F", "done", "extract", "extracted"}

---------------------------------------------------------------------------
(* Claims *)

\* C1: in a run of main() in which neither strategy A nor strategy B returned
\* at least 500 symbols, the output file is never written: it is what it was
\* when the run started, and no file is created where none was.
C1_NoAcceptedResultNoWrite ==
  (pc \in {"F", "done"} /\ Len(resA) < THRESHOLD /\ Len(resB) < THRESHOLD)
    => (file = file0 /\ ~wrote)

\* a run ended in which finviz collected symbols, too few, and the file that
\* existed holds no valid ticker
C1_Witness ==
  /\ pc = "done"
  /\ calls = <<"A", "B", "F">>
  /\ Len(resA) < THRESHOLD /\ Len(resB) < THRESHOLD
  /\ b_tickers # <<>>
  /\ file0.exists /\ load_existing(file0) = <<>>

\* C2: whenever main() has written the file, its lines are in strictly
\* ascending order, each passes the Validator, none is in the denylist, and
\* the content is the lines joined by newlines plus one trailing newline.
C2_WrittenFileSortedValidFiltered ==
  (pc = "done" /\ wrote) =>
    LET lines == splitlines(file.text)
    IN /\ \A i \in 1..(Len(lines) - 1) : Less(lines[i], lines[i + 1])
       /\ \A i \in 1..Len(lines) : is_valid_ticker(lines[i])
       /\ \A i \in 1..Len(lines) : lines[i] \notin exclude
       /\ file.text = join_lines(lines) \o <<NEWLINE>>

\* C3: when the JSON path and the HTML anchor path of a response each yield
\* fewer than 500 distinct valid symbols, strategy A returns the empty list.
C3_StrategyAReturnsEmptyBelowThreshold ==
  (pc = "B" /\ calls = <<"A">>) =>
    LET json == IF up.http = "ok" /\ up.match = "ok"
                THEN extract_tickers_from_json(NextData(up), 0)
                ELSE <<>>
        html == IF up.http = "ok"
                THEN [i \in 1..Len(Anchors(up)) |-> upper(strip(Anchors(up)[i]))]
                ELSE <<>>
        distinct(s) == Cardinality({x \in SetOf(s) : is_valid_ticker(x)})
    IN (distinct(json) < THRESHOLD /\ distinct(html) < THRESHOLD)
         => resA = <<>>

\* C4: the extractor uppercases a candidate-key string before validating it:
\* for every object within the depth guard whose candidate key holds a string
\* whose uppercased form passes the Validator, the uppercased string is in
\* the result ("ABCD" and "WXYZ" for the example payload).
C4_ExtractorUppercasesBeforeValidating ==
  (pc = "extracted") =>
    \A i \in 1..Len(up.extras) :
      LET key == up.extras[i][1]
          val == up.extras[i][2]
      IN (/\ key \in SetOf(CandidateKeys)
          /\ RowDepth(up) <= MAX_DEPTH
          /\ val.t = "str"
          /\ is_valid_ticker(upper(val.v)))
           => upper(val.v) \in SetOf(tickers)

\* C5: every line of a file written by main() is one ticker in normalized
\* form: only uppercase letters and hyphens, 1 to 5 letters, no leading or
\* trailing whitespace.
C5_WrittenLinesNormalized ==
  (pc = "done" /\ wrote) =>
    LET lines == splitlines(file.text)
    IN \A i \in 1..Len(lines) :
         LET l == lines[i]
             letters == SelectSeq(l, IsUpperChar)
         IN /\ \A j \in 1..Len(l) : IsUpperChar(l[j]) \/ l[j] = HYPHEN
            /\ 1 <= Len(letters) /\ Len(letters) <= 5
            /\ strip(l) = l

\* C6: main() tries A, then B, then the fallback: B is invoked only if A
\* returned fewer than 500 symbols, the existing file is read only if both
\* returned fewer than 500, and when A returned at least 500 the written file
\* is derived from A's result alone.
C6_SourcesInFixedOrder ==
  /\ calls \in {<<>>, <<"A">>, <<"A", "B">>, <<"A", "B", "F">>}
  /\ "B" \in SetOf(calls) => Len(resA) < THRESHOLD
  /\ "F" \in SetOf(calls) => (Len(resA) < THRESHOLD /\ Len(resB) < THRESHOLD)
  /\ (pc = "done" /\ Len(resA) >= THRESHOLD) =>
       /\ wrote
       /\ reqs = <<>>
       /\ SetOf(tickers) = {x \in SetOf(resA) : is_valid_ticker(x) /\ x \notin exclude}
       /\ file = FileOf(file_text(tickers))

\* a run ended in which A was accepted and replaced an existing file
C6_Witness ==
  /\ pc = "done"
  /\ calls = <<"A">>
  /\ Len(resA) >= THRESHOLD
  /\ wrote
  /\ file0.exists /\ file # file0

\* C7: in strategy B, if page 1 yields no symbol no further page is requested
\* and the result is empty; if a later page k yields no symbol, no page after
\* k is requested and the deduplicated symbols of pages 1..k-1 are what is
\* compared against the threshold.
C7_EmptyPageStopsPagination ==
  \A k \in 1..Len(pagelog) :
    pagelog[k].out = "empty" =>
      /\ k = Len(pagelog) /\ Len(reqs) = k
      /\ pc = "F"
      /\ LET acc == dedupe(Flatten([i \in 1..(k - 1) |-> pagelog[i].syms]))
         IN resB = IF k > 1 /\ Len(acc) > THRESHOLD THEN acc ELSE <<>>

\* pages 1 and 2 yielded symbols, page 3 none, and what pages 1 and 2 yielded
\* was accepted
C7_Witness ==
  /\ pc = "F"
  /\ Len(pagelog) = 3
  /\ pagelog[1].out = "rows" /\ pagelog[2].out = "rows"
  /\ pagelog[3].out = "empty"
  /\ Len(resB) > THRESHOLD

\* C8: two runs of main() in succession whose upstream returns the same
\* accepted content, in whatever order and multiplicity, write byte-identical
\* files, the file existing at the start of the second run notwithstanding.
C8_SecondRunWritesSameFile ==
  (pc = "done" /\ wrote /\ prev.wrote /\ SetOf(Accepted) = SetOf(prev.accepted))
    => file.text = prev.file

\* the second run was handed the same symbols as the first, in another order
C8_Witness ==
  /\ pc = "done" /\ wrote /\ prev.wrote
  /\ SetOf(Accepted) = SetOf(prev.accepted)
  /\ Len(Accepted) = Len(prev.accepted)
  /\ Accepted # prev.accepted

\* C9: in strategy B an error on a page k >= 2 does not abort the strategy:
\* what was accumulated is kept, page k contributes nothing, pagination goes
\* on with page k+1 (when k is not the last page), and the final result is
\* evaluated over all the pages that succeeded before and after k.
C9_PageErrorIsSkipped ==
  \A k \in 2..Len(pagelog) :
    pagelog[k].out = "error" =>
      /\ pc = "B_loop" \/ k < Len(pagelog) \/ k = max_page
      /\ k < Len(pagelog) => reqs[k + 1] = r_start(k + 1, rows_per_page)
      /\ b_tickers = Flatten([i \in 1..Len(pagelog) |-> pagelog[i].syms])
      /\ pc = "F" =>
           LET acc == dedupe(Flatten([i \in 1..Len(pagelog) |-> pagelog[i].syms]))
           IN resB = IF Len(acc) > THRESHOLD THEN acc ELSE <<>>

\* page 2 failed, page 3 yielded symbols, and the result was accepted
C9_Witness ==
  /\ pc = "F"
  /\ Len(pagelog) > 3
  /\ pagelog[2].out = "error"
  /\ pagelog[3].out = "rows"
  /\ Len(resB) > THRESHOLD

\* C10: strategy B always terminates, and one run issues at most 110 page
\* requests, whatever total page 1 reports, however many symbols page 1
\* holds and whichever later pages fail.
C10_TerminatesWithinPageCap ==
  /\ [](Len(reqs) <= MAX_PAGES)
  /\ <>(pc = "F")

\* a run that requested all 110 pages and returned
C10_Witness ==
  /\ pc = "F"
  /\ Len(reqs) = MAX_PAGES
  /\ upB.total > DEFAULT_TOTAL

====
